---- MODULE Spec2Model ----
(***************************************************************************)
(* NHL fantasy draft tool (src/main.py): load_data, the scoring transform  *)
(* calculate_fantasy_points, the merge create_combined_rankings and the    *)
(* Streamlit script main, which the framework re-executes top to bottom on *)
(* every widget interaction of a session.                                  *)
(*                                                                         *)
(* Numbers.  Stat values are integers.  Weights are decimals with at most  *)
(* two places (the number_input steps are 0.5, 0.1 and 0.05) and are held  *)
(* in hundredths; a product stat x weight and the running sum are in       *)
(* hundredths; Fantasy Points after round(1) are held in tenths.  SV% and  *)
(* GAA are only copied, never computed with, and are held as scaled        *)
(* integers.  Non-finite values (inf) are not modelled.                    *)
(***************************************************************************)
EXTENDS Integers, Sequences, FiniteSets, TLC

\* Largest number of rows of the skater file and of the goalie file.
MaxSkaters == 2
MaxGoalies == 1

(***************************************************************************)
(* Cells and tables.  A cell is a number, a text, or missing (NaN).  A     *)
(* table is [cols, rows]: the set of column names and the sequence of      *)
(* rows, each a function from cols to cells.  None is Python's None.       *)
(***************************************************************************)
Num(n) == [kind |-> "num", num |-> n, text |-> ""]
Text(s) == [kind |-> "text", num |-> 0, text |-> s]
NaN == [kind |-> "nan", num |-> 0, text |-> ""]
None == [none |-> TRUE]

Table(cols, rows) == [cols |-> cols, rows |-> rows]

\* A header of a raw file: the column name, possibly wrapped in quotes.
Header(name, quoted) == [name |-> name, quoted |-> quoted]

\* columns.str.replace('"', ''): the header without its quotes.
StripQuotes(h) == h.name

\* The texts that parse as a number, with the number they parse to; any
\* other text does not parse.
Literal == [t \in {"4", "30"} |-> IF t = "4" THEN 4 ELSE 30]

\* to_numeric with errors='ignore': a text that does not parse is kept.
ToNumericIgnore(c) ==
    CASE c.kind = "num" -> c
      [] c.kind = "nan" -> NaN
      [] OTHER -> IF c.text \in DOMAIN Literal THEN Num(Literal[c.text]) ELSE c

\* pd.to_numeric(value, errors='coerce') on one cell.
ToNumeric(c) ==
    CASE c.kind = "num" -> c
      [] c.kind = "nan" -> NaN
      [] OTHER -> IF c.text \in DOMAIN Literal THEN Num(Literal[c.text]) ELSE NaN

\* DataFrame.fillna(0) on one cell.
FillNa(c) == IF c.kind = "nan" THEN Num(0) ELSE c

numeric_cols_skaters ==
    {"VAR", "GP", "G", "A", "PTS", "(+/-)", "PIM", "EV",
     "PPG", "PPA", "PPP", "SOG", "ATOI", "FOW", "BLK", "HIT"}

numeric_cols_goalies ==
    {"VAR", "GS", "W", "L", "T/O", "SO", "SV", "SV%", "GA", "GAA", "SA"}

\* The raw header of a table whose quotes were stripped to column name n.
HeaderOf(raw, n) == CHOOSE h \in raw.cols : StripQuotes(h) = n

\* Lines 23-42 for one table: strip the quotes of the headers, coerce the
\* declared numeric columns that are present, then fill every NaN with 0.
Clean(raw, numeric_cols) ==
    LET names == {StripQuotes(h) : h \in raw.cols}
        coerce(n, c) == IF n \in numeric_cols THEN ToNumeric(c) ELSE c
    IN  Table(names,
              [i \in DOMAIN raw.rows |->
                  [n \in names |-> FillNa(coerce(n, raw.rows[i][HeaderOf(raw, n)]))]])

\* A file that cannot be read or parsed (pd.read_csv raises).
Unreadable == [unreadable |-> TRUE]

\* load_data with one try block per file: a table for each file that reads.
load_data_partial(skaters_file, goalies_file) ==
    [skaters |-> IF skaters_file = Unreadable THEN None
                 ELSE Clean(skaters_file, numeric_cols_skaters),
     goalies |-> IF goalies_file = Unreadable THEN None
                 ELSE Clean(goalies_file, numeric_cols_goalies)]

\* load_data: any exception inside the try block yields (None, None).
load_data(skaters_file, goalies_file) ==
    IF skaters_file = Unreadable \/ goalies_file = Unreadable
    THEN [skaters |-> None, goalies |-> None]
    ELSE [skaters |-> Clean(skaters_file, numeric_cols_skaters),
          goalies |-> Clean(goalies_file, numeric_cols_goalies)]

(***************************************************************************)
(* calculate_fantasy_points                                                *)
(***************************************************************************)
\* A skater branch that also adds wins.
SkaterStatsWithWins == <<"G", "A", "PIM", "PPG", "PPP", "SOG", "HIT", "BLK", "W">>

\* The stats the skater branch (lines 94-109) and the goalie branch (lines
\* 112-117) add, in the order of the code.
SkaterStats == <<"G", "A", "PIM", "PPG", "PPP", "SOG", "HIT", "BLK">>
GoalieStats == <<"W", "SV", "SO">>

\* One guarded statement
\*   if col in df.columns and col in scoring:
\*       df['Fantasy Points'] += df[col] * scoring[col]
\* on the column of running sums fp (hundredths).
AddStat(df, scoring, fp, col) ==
    IF col \in df.cols /\ col \in DOMAIN scoring
    THEN [i \in DOMAIN fp |-> fp[i] + df.rows[i][col].num * scoring[col]]
    ELSE fp

\* The guarded statements for the first k stats of a branch, in order.
RECURSIVE AddStats(_, _, _, _, _)
AddStats(df, scoring, fp, stats, k) ==
    IF k = 0 THEN fp
    ELSE AddStat(df, scoring, AddStats(df, scoring, fp, stats, k - 1), stats[k])

\* round(1) of a non-negative amount in hundredths, to tenths, ties to even.
RoundNat(x) ==
    LET q == x \div 10
        r == x % 10
    IN  IF r < 5 THEN q
        ELSE IF r > 5 THEN q + 1
        ELSE IF q % 2 = 0 THEN q ELSE q + 1

\* Series.round(1): hundredths to tenths, ties to even, symmetric in sign.
Round1(x) == IF x >= 0 THEN RoundNat(x) ELSE 0 - RoundNat(0 - x)

\* The table with column col set to the cells of the sequence cells.
SetColumn(df, col, cells) ==
    Table(df.cols \cup {col},
          [i \in DOMAIN df.rows |->
              [n \in df.cols \cup {col} |-> IF n = col THEN cells[i] ELSE df.rows[i][n]]])

\* Line 119 on the column of sums fp.
RoundColumn(df, fp) ==
    SetColumn(df, "Fantasy Points", [i \in DOMAIN fp |-> Num(Round1(fp[i]))])

\* The scored copy that calculate_fantasy_points builds: the column starts
\* at 0 (line 90), the branch of player_type adds to it, line 119 rounds it.
Scored(df, scoring, player_type) ==
    IF player_type = "skater"
    THEN RoundColumn(df, AddStats(df, scoring, [i \in DOMAIN df.rows |-> 0],
                                  SkaterStats, Len(SkaterStats)))
    ELSE RoundColumn(df, AddStats(df, scoring, [i \in DOMAIN df.rows |-> 0],
                                  GoalieStats, Len(GoalieStats)))

\* calculate_fantasy_points without the copy of line 89: the caller's table
\* receives the Fantasy Points column.
calculate_fantasy_points_in_place(df, scoring, player_type) ==
    [input |-> Scored(df, scoring, player_type),
     result |-> Scored(df, scoring, player_type)]

\* calculate_fantasy_points(df, scoring, player_type): `result` is the value
\* returned, `input` is the caller's table after the call.  Line 89 rebinds
\* df to a copy, so every later assignment leaves the caller's table alone.
calculate_fantasy_points(df, scoring, player_type) ==
    [input |-> df, result |-> Scored(df, scoring, player_type)]

(***************************************************************************)
(* create_combined_rankings                                                *)
(***************************************************************************)
NRows(df) == Cardinality(DOMAIN df.rows)

\* What a call that raises yields instead of a value.
Raised(exception) == [raised |-> exception]

skater_cols ==
    {"Player", "Team", "Pos", "Fantasy Points",
     "G", "A", "PTS", "PIM", "PPG", "PPP", "SOG", "HIT", "BLK"}

goalie_cols == {"Player", "Team", "Fantasy Points", "W", "SV", "SO", "SV%", "GAA"}

\* The columns set to 0 on goalie rows (line 136) and on skater rows (line 140).
SkaterOnlyCols == {"G", "A", "PTS", "PIM", "PPG", "PPP", "SOG", "HIT", "BLK"}
GoalieOnlyCols == {"W", "SV", "SO", "SV%", "GAA"}

\* df[cols].copy(), for cols that df has.
Select(df, cols) ==
    Table(cols, [i \in DOMAIN df.rows |-> [n \in cols |-> df.rows[i][n]]])

\* df[col] = value for every col of cols: the same cell on every row.
SetConst(df, cols, cell) ==
    Table(df.cols \cup cols,
          [i \in DOMAIN df.rows |->
              [n \in df.cols \cup cols |-> IF n \in cols THEN cell ELSE df.rows[i][n]]])

\* The skater rows without the goalie columns set to 0.
SkatersDisplayUnfilled(skaters) ==
    SetConst(Select(skaters, skater_cols), {"Player Type"}, Text("Skater"))

\* Lines 126-127 and 140-141.
SkatersDisplay(skaters) ==
    SetConst(SetConst(Select(skaters, skater_cols), {"Player Type"}, Text("Skater")),
             GoalieOnlyCols, Num(0))

\* Lines 131-137.
GoaliesDisplay(goalies) ==
    SetConst(SetConst(SetConst(Select(goalies, goalie_cols),
                               {"Player Type"}, Text("Goalie")),
                      {"Pos"}, Text("G")),
             SkaterOnlyCols, Num(0))

\* pd.concat([a, b], ignore_index=True): the rows of a, then the rows of b;
\* a column one table lacks is NaN on its rows.
Concat(a, b) ==
    LET cols == a.cols \cup b.cols
        cell(df, i, n) == IF n \in df.cols THEN df.rows[i][n] ELSE NaN
    IN  Table(cols,
              [i \in 1..(NRows(a) + NRows(b)) |->
                  [n \in cols |-> IF i <= NRows(a) THEN cell(a, i, n)
                                  ELSE cell(b, i - NRows(a), n)]])

\* Line 144: the pre-sort concatenation.
Combined(skaters, goalies) == Concat(SkatersDisplay(skaters), GoaliesDisplay(goalies))

\* The order of ascending=True.
NonDecreasing(df, by, p) ==
    \A i \in 1..(Len(p) - 1) : df.rows[p[i]][by].num <= df.rows[p[i + 1]][by].num

\* Whether the values of `by` never increase along the arrangement p of rows.
NonIncreasing(df, by, p) ==
    \A i \in 1..(Len(p) - 1) : df.rows[p[i]][by].num >= df.rows[p[i + 1]][by].num

\* The arrangement p with row k put at position at.
InsertAt(p, k, at) == SubSeq(p, 1, at - 1) \o << k >> \o SubSeq(p, at, Len(p))

\* The arrangements of the rows 1..k in which the values of `by` never
\* increase.  Taking row k out of such an arrangement leaves one of the rows
\* 1..k-1, so every one of them is an arrangement of 1..k-1 with k inserted.
RECURSIVE Arrangements(_, _, _)
Arrangements(df, by, k) ==
    IF k = 0 THEN {<< >>}
    ELSE UNION {{q \in {InsertAt(p, k, at) : at \in 1..k} : NonIncreasing(df, by, q)}
                  : p \in Arrangements(df, by, k - 1)}

\* sort_values(by, ascending=False) with the default kind='quicksort', which
\* is not a stable sort: the result is some arrangement of the rows in
\* which the values of `by` never increase; the order among equal values is
\* whatever the sorting routine of the build produces.  order[i] is the
\* pre-sort position of the row that lands at position i.
SortOrders(df, by) == Arrangements(df, by, NRows(df))

\* The rows of df rearranged by order, renumbered from 1 (reset_index).
Reorder(df, order) ==
    Table(df.cols, [i \in DOMAIN df.rows |-> df.rows[order[i]]])

\* Ranks counted from 0: range(len(combined)).
AssignRankFromZero(df) == SetColumn(df, "Rank", [i \in DOMAIN df.rows |-> Num(i - 1)])

\* Line 146: combined['Rank'] = range(1, len(combined) + 1).
AssignRank(df) == SetColumn(df, "Rank", [i \in DOMAIN df.rows |-> Num(i)])

\* Whether the column selections of lines 126 and 131 succeed.
HasRankingColumns(skaters, goalies) ==
    skater_cols \subseteq skaters.cols /\ goalie_cols \subseteq goalies.cols

\* The orders the sort of line 145 may produce for these inputs.
RankingOrders(skaters, goalies) ==
    IF HasRankingColumns(skaters, goalies)
    THEN SortOrders(Combined(skaters, goalies), "Fantasy Points")
    ELSE {<< >>}

\* create_combined_rankings(skaters, goalies), the sort producing `order`.
create_combined_rankings(skaters, goalies, order) ==
    IF ~HasRankingColumns(skaters, goalies) THEN Raised("KeyError")
    ELSE AssignRank(Reorder(Combined(skaters, goalies), order))

(***************************************************************************)
(* The summaries and tabs of main                                          *)
(***************************************************************************)
IsRaised(v) == DOMAIN v = {"raised"}

\* A row appended to the rows kept so far when it matches.
KeepIf(kept, row, matches) == IF matches THEN Append(kept, row) ELSE kept

\* df[df[col] == value].reset_index(drop=True), over the first k rows.
RECURSIVE FilterRows(_, _, _, _)
FilterRows(df, col, cell, k) ==
    IF k = 0 THEN << >>
    ELSE KeepIf(FilterRows(df, col, cell, k - 1), df.rows[k], df.rows[k][col] = cell)

Filter(df, col, cell) == Table(df.cols, FilterRows(df, col, cell, NRows(df)))

\* df.iloc[0]: the first row; IndexError on a table without rows.
ILoc0(df) == IF NRows(df) = 0 THEN Raised("IndexError") ELSE df.rows[1]

\* Line 222.
top_player(combined_rankings) == ILoc0(combined_rankings)

\* Line 227: no emptiness check precedes the iloc[0].
top_goalie(combined_rankings) == ILoc0(Filter(combined_rankings, "Pos", Text("G")))

\* Lines 310-342, 346-378, 382-414: a position tab shows its table when the
\* filter matches a row and a warning when it matches none.
PositionTab(combined_rankings, pos) ==
    IF NRows(Filter(combined_rankings, "Pos", Text(pos))) # 0 THEN "table" ELSE "warning"

\* Line 245: sorted(combined_rankings['Pos'].unique()) raises TypeError when
\* the positions mix texts with the number 0 that fillna put for a missing one.
PosSortable(combined_rankings) ==
    \A i, j \in DOMAIN combined_rankings.rows :
        combined_rankings.rows[i]["Pos"].kind = combined_rankings.rows[j]["Pos"].kind

\* The display part of main (lines 214-482) on the value that
\* create_combined_rankings yielded: the first exception raised, or "displayed".
Display(combined_rankings) ==
    CASE IsRaised(combined_rankings) -> combined_rankings.raised
      [] IsRaised(top_player(combined_rankings)) -> "IndexError"
      [] IsRaised(top_goalie(combined_rankings)) -> "IndexError"
      [] ~PosSortable(combined_rankings) -> "TypeError"
      [] OTHER -> "displayed"

\* The preview branch (lines 485-499): the column selections of lines 494
\* and 499 raise KeyError on a table that lacks one of the columns.
Preview(skaters, goalies) ==
    IF /\ {"Player", "Team", "Pos", "G", "A", "PTS"} \subseteq skaters.cols
       /\ {"Player", "Team", "W", "SV%", "GAA"} \subseteq goalies.cols
    THEN "preview" ELSE "KeyError"

(***************************************************************************)
(* The analysis tab (lines 440-482): the two groupby aggregates.  Fantasy  *)
(* Points are in tenths; a mean is kept as the exact ratio sum / count.    *)
(***************************************************************************)
\* keys with cell added at the end unless it is among them already.
AddKey(keys, cell) ==
    IF \E i \in DOMAIN keys : keys[i] = cell THEN keys ELSE Append(keys, cell)

\* The distinct values of column col in the first k rows of df, each once.
\* fillna (line 41) left no missing value, so groupby drops no row.  pandas
\* lists the groups by ascending key; the model lists them by first
\* appearance, an order that lines 451 and 469 replace by their sort.
RECURSIVE GroupKeys(_, _, _)
GroupKeys(df, col, k) ==
    IF k = 0 THEN << >> ELSE AddKey(GroupKeys(df, col, k - 1), df.rows[k][col])

\* The rows of df whose column col holds key.
Members(df, col, key) == {i \in DOMAIN df.rows : df.rows[i][col] = key}

\* A groupby that lost the groups of a single row.
GroupsOfSeveral(df, col) ==
    SelectSeq(GroupKeys(df, col, NRows(df)),
              LAMBDA key : Cardinality(Members(df, col, key)) > 1)

\* groupby(col): one group per distinct value of col.
Groups(df, col) == GroupKeys(df, col, NRows(df))

\* sum() of Fantasy Points over the rows in S.
RECURSIVE SumPoints(_, _)
SumPoints(df, S) ==
    IF S = {} THEN 0
    ELSE LET i == CHOOSE j \in S : TRUE
         IN  df.rows[i]["Fantasy Points"].num + SumPoints(df, S \ {i})

\* A 'count' that left out the rows without points.
CountScoring(df, S) ==
    Cardinality({i \in S : df.rows[i]["Fantasy Points"].num > 0})

\* 'count': the rows in S whose Fantasy Points are not missing.
CountPoints(df, S) ==
    Cardinality({i \in S : df.rows[i]["Fantasy Points"].kind = "num"})

\* 'max' of Fantasy Points over the rows in S, which is not empty.
MaxPoints(df, S) ==
    CHOOSE m \in {df.rows[i]["Fantasy Points"].num : i \in S} :
        \A i \in S : df.rows[i]["Fantasy Points"].num <= m

\* 'mean': a ratio, since tenths do not divide evenly.
Mean(sum, count) == [sum |-> sum, count |-> count]

\* Line 450.
PosStatsCols == {"Position", "Player Count", "Average Points", "Max Points"}

\* The row of one position in the frame of lines 449-450.
PosStatsRow(df, S, key) ==
    [c \in PosStatsCols |->
        CASE c = "Position" -> key
          [] c = "Player Count" -> Num(CountPoints(df, S))
          [] c = "Average Points" -> Mean(SumPoints(df, S), CountPoints(df, S))
          [] c = "Max Points" -> Num(MaxPoints(df, S))]

\* Lines 449-450: groupby('Pos')['Fantasy Points'].agg(['count', 'mean',
\* 'max']).reset_index() under its new column names, before the sort.
PosStatsOf(df, keys) ==
    Table(PosStatsCols,
          [g \in DOMAIN keys |-> PosStatsRow(df, Members(df, "Pos", keys[g]), keys[g])])

PosStatsUnsorted(combined_rankings) ==
    PosStatsOf(combined_rankings, Groups(combined_rankings, "Pos"))

\* Whether the means never increase along the arrangement p of rows.
MeansNonIncreasing(df, p) ==
    \A i \in 1..(Len(p) - 1) :
        LET a == df.rows[p[i]]["Average Points"]
            b == df.rows[p[i + 1]]["Average Points"]
        IN  a.sum * b.count >= b.sum * a.count

\* Arrangements, for the ratios of 'Average Points'.
RECURSIVE MeanArrangements(_, _)
MeanArrangements(df, k) ==
    IF k = 0 THEN {<< >>}
    ELSE UNION {{q \in {InsertAt(p, k, at) : at \in 1..k} : MeansNonIncreasing(df, q)}
                  : p \in MeanArrangements(df, k - 1)}

\* Line 451: sort_values('Average Points', ascending=False), again with
\* the default sort that may put equal means in any order.
PosStatsOrders(unsorted) == MeanArrangements(unsorted, NRows(unsorted))

\* Line 468.
TeamStatsCols == {"Team", "Total Fantasy Points"}

\* Lines 467-468: groupby('Team')['Fantasy Points'].sum().reset_index().
TeamStatsOf(df, keys) ==
    Table(TeamStatsCols,
          [g \in DOMAIN keys |->
              [c \in TeamStatsCols |->
                  IF c = "Team" THEN keys[g]
                  ELSE Num(SumPoints(df, Members(df, "Team", keys[g])))]])

TeamStatsUnsorted(combined_rankings) ==
    TeamStatsOf(combined_rankings, Groups(combined_rankings, "Team"))

\* Line 469: the number of teams head keeps.
TopTeams == 10

\* head(n): the first n rows, or all of them when there are fewer.
HeadRows(df, n) ==
    Table(df.cols, [i \in {j \in DOMAIN df.rows : j <= n} |-> df.rows[i]])

\* Line 469: sort_values('Total Fantasy Points', ascending=False).head(10).
TeamStatsOrders(unsorted) == SortOrders(unsorted, "Total Fantasy Points")

(***************************************************************************)
(* Snapshots and widget values the model draws from                        *)
(***************************************************************************)
SkaterFileCols ==
    {"Player", "Team", "Pos", "GP", "G", "A", "PTS", "PIM", "PPG", "PPP", "SOG", "HIT", "BLK"}

GoalieFileCols == {"Player", "Team", "GS", "W", "SV", "SO", "SV%", "GAA"}

SkaterRow(team, pos, g, a, pts, pim, sog, hit) ==
    [n \in SkaterFileCols \ {"Player"} |->
        CASE n = "Team" -> team [] n = "Pos" -> pos [] n = "G" -> g [] n = "A" -> a
          [] n = "PTS" -> pts [] n = "PIM" -> pim [] n = "SOG" -> sog [] n = "HIT" -> hit
          [] n = "GP" -> Num(1) [] OTHER -> Num(0)]

\* Raw skater rows: a centre, a defenseman with one stat read as text, a
\* row whose team and position are missing and whose stats are malformed,
\* and a left winger.
SkaterRows ==
    << SkaterRow(Text("EDM"), Text("C"), Num(2), Num(1), Num(3), Num(0), Num(3), Num(1)),
       SkaterRow(Text("TOR"), Text("D"), Num(0), Text("4"), Num(4), Num(1), Num(0), Num(0)),
       SkaterRow(NaN, NaN, Text("--"), NaN, NaN, Text("n/a"), Num(0), Num(0)),
       SkaterRow(Text("TOR"), Text("LW"), Num(1), Num(3), Num(4), Num(0), Num(3), Num(0)) >>

GoalieRow(team, w, sv, so, svpct, gaa) ==
    [n \in GoalieFileCols \ {"Player"} |->
        CASE n = "Team" -> team [] n = "W" -> w [] n = "SV" -> sv [] n = "SO" -> so
          [] n = "SV%" -> svpct [] n = "GAA" -> gaa [] OTHER -> Num(1)]

GoalieRows ==
    << GoalieRow(Text("TOR"), Num(1), Text("30"), Num(0), Num(915), Num(250)),
       GoalieRow(Text("EDM"), Text("-"), NaN, NaN, NaN, Text("x")) >>

\* A raw file: the chosen rows, the i-th named prefix followed by i, under
\* the headers of cols, those of `quoted` wrapped in quotes.
RawFile(menu, picks, prefix, cols, quoted) ==
    LET hs == {Header(n, n \in quoted) : n \in cols}
    IN  Table(hs,
              [i \in DOMAIN picks |->
                  [h \in hs |-> IF h.name = "Player" THEN Text(prefix \o ToString(i))
                                ELSE menu[picks[i]][h.name]]])

\* The sequences of at most n elements of S, no element twice.
SeqsUpTo(S, n) ==
    UNION {{q \in [1..k -> S] : \A i, j \in 1..k : i # j => q[i] # q[j]} : k \in 0..n}

\* Skater files: every choice of rows under plain headers; the one-row
\* files also with quoted headers and without the HIT column.
SkaterFiles ==
    {Unreadable}
    \cup {RawFile(SkaterRows, picks, "S", SkaterFileCols, {})
            : picks \in SeqsUpTo(DOMAIN SkaterRows, MaxSkaters)}
    \cup {RawFile(SkaterRows, picks, "S", SkaterFileCols, {"G", "A", "Team"})
            : picks \in SeqsUpTo(DOMAIN SkaterRows, 1)}
    \cup {RawFile(SkaterRows, picks, "S", SkaterFileCols \ {"HIT"}, {})
            : picks \in SeqsUpTo(DOMAIN SkaterRows, 1)}

GoalieFiles ==
    {Unreadable} \cup
    {RawFile(GoalieRows, picks, "T", GoalieFileCols, {})
       : picks \in SeqsUpTo(DOMAIN GoalieRows, MaxGoalies)}

ScoringKeys == {"G", "A", "PIM", "PPG", "PPP", "SOG", "HIT", "BLK", "W", "SV", "SO"}

\* The widget defaults of lines 58-77, in hundredths.
DefaultScoring ==
    [k \in ScoringKeys |->
        CASE k = "G" -> 600 [] k = "A" -> 400 [] k = "PIM" -> 100 [] k = "PPG" -> 100
          [] k = "PPP" -> 200 [] k = "SOG" -> 25 [] k = "HIT" -> 200 [] k = "BLK" -> 200
          [] k = "W" -> 200 [] k = "SV" -> 50 [] OTHER -> 200]

\* Another setting of the widgets, within their ranges, in hundredths.
EditedScoring ==
    [k \in ScoringKeys |->
        CASE k = "G" -> 350 [] k = "A" -> 200 [] k = "PIM" -> 0 - 50 [] k = "PPG" -> 50
          [] k = "PPP" -> 100 [] k = "SOG" -> 5 [] k = "HIT" -> 10 [] k = "BLK" -> 30
          [] k = "W" -> 450 [] k = "SV" -> 5 [] OTHER -> 300]

\* create_fantasy_scoring_inputs: the dictionary built from the widgets,
\* always with the eleven keys.
ScoringInputs == {DefaultScoring, EditedScoring}

(***************************************************************************)
(* State                                                                   *)
(***************************************************************************)
VARIABLES
    skaters_csv,          \* data/skaters_cat_league.csv
    goalies_csv,          \* data/goalies_cat_league.csv
    cache,                \* the value st.cache_data holds for load_data
    session_state,        \* the keys of st.session_state
    run_calculation,      \* main's locals at the end of the last script run ...
    scoring,
    skaters,
    goalies,
    skaters_with_points,
    goalies_with_points,
    combined_rankings,
    outcome,              \* how that run ended
    warnings,             \* the position tabs that showed the 'none found' warning
    pos_stats,            \* the frames of the analysis tab
    team_stats,
    call                  \* a single call of calculate_fantasy_points

vars ==
    << skaters_csv, goalies_csv, cache, session_state, run_calculation,
       scoring, skaters, goalies, skaters_with_points, goalies_with_points,
       combined_rankings, outcome, warnings, pos_stats, team_stats, call >>

CacheEmpty == [empty |-> TRUE]

\* Before any script run: main has no locals yet.
NoRun ==
    /\ cache = CacheEmpty
    /\ session_state = {}
    /\ run_calculation = FALSE
    /\ scoring = None
    /\ skaters = None
    /\ goalies = None
    /\ skaters_with_points = None
    /\ goalies_with_points = None
    /\ combined_rankings = None
    /\ outcome = "none"
    /\ warnings = {}
    /\ pos_stats = None
    /\ team_stats = None

Init ==
    /\ skaters_csv \in SkaterFiles
    /\ goalies_csv \in GoalieFiles
    /\ NoRun
    /\ call = None

(***************************************************************************)
(* main: one action per way through the script.  The script runs once     *)
(* per interaction; st.button is True only in the run its click       *)
(* caused, and the scoring widgets hold whatever the user last entered.    *)
(***************************************************************************)
\* load_data under @st.cache_data: the body runs on the first call only.
Loaded == IF cache = CacheEmpty THEN load_data(skaters_csv, goalies_csv) ELSE cache

\* Line 187.
LoadFailed(sk, go) == sk = None \/ go = None

\* Line 203.
ShouldCalculate(pressed, state) == pressed \/ "fantasy_calculated" \in state

\* Lines 185-189: the load yielded None and main returns.
StoppedRun ==
    \E loaded \in {Loaded} :
        /\ LoadFailed(loaded.skaters, loaded.goalies)
        /\ cache' = loaded
        /\ skaters' = loaded.skaters
        /\ goalies' = loaded.goalies
        /\ run_calculation' = FALSE
        /\ scoring' = None
        /\ skaters_with_points' = None
        /\ goalies_with_points' = None
        /\ combined_rankings' = None
        /\ outcome' = "stopped"
        /\ warnings' = {}
        /\ pos_stats' = None
        /\ team_stats' = None
        /\ UNCHANGED << skaters_csv, goalies_csv, session_state, call >>

\* Lines 185-203 and 484-499: neither pressed nor calculated before.
PreviewRun ==
    \E loaded \in {Loaded}, sc \in ScoringInputs :
        /\ ~LoadFailed(loaded.skaters, loaded.goalies)
        /\ ~ShouldCalculate(FALSE, session_state)
        /\ cache' = loaded
        /\ skaters' = loaded.skaters
        /\ goalies' = loaded.goalies
        /\ run_calculation' = FALSE
        /\ scoring' = sc
        /\ skaters_with_points' = None
        /\ goalies_with_points' = None
        /\ combined_rankings' = None
        /\ outcome' = Preview(loaded.skaters, loaded.goalies)
        /\ warnings' = {}
        /\ pos_stats' = None
        /\ team_stats' = None
        /\ UNCHANGED << skaters_csv, goalies_csv, session_state, call >>

\* Lines 449-451 and 467-469: the two frames of the analysis tab.
ShowAnalysis(ranked) ==
    \E by_pos \in {PosStatsUnsorted(ranked)}, by_team \in {TeamStatsUnsorted(ranked)} :
        \E pos_order \in PosStatsOrders(by_pos), team_order \in TeamStatsOrders(by_team) :
            /\ pos_stats' = Reorder(by_pos, pos_order)
            /\ team_stats' = HeadRows(Reorder(by_team, team_order), TopTeams)

\* Lines 214-482 on the ranking, or the exception, that line 212 yielded.
\* An exception ends the run before the analysis tab is reached.
ShowResults(ranked) ==
    \E shown \in {Display(ranked)} :
        /\ combined_rankings' = ranked
        /\ outcome' = shown
        /\ warnings' =
               IF shown = "displayed"
               THEN {p \in {"D", "LW", "RW"} : PositionTab(ranked, p) = "warning"}
               ELSE {}
        /\ IF shown = "displayed"
           THEN ShowAnalysis(ranked)
           ELSE pos_stats' = None /\ team_stats' = None

\* Lines 185-482: the branch that scores, ranks and displays.
CalculationRun ==
    \E loaded \in {Loaded}, pressed \in BOOLEAN, sc \in ScoringInputs :
        /\ ~LoadFailed(loaded.skaters, loaded.goalies)
        /\ ShouldCalculate(pressed, session_state)
        /\ cache' = loaded
        /\ session_state' = session_state \cup {"fantasy_calculated"}
        /\ run_calculation' = pressed
        /\ scoring' = sc
        /\ \E sk \in {calculate_fantasy_points(loaded.skaters, sc, "skater")},
              go \in {calculate_fantasy_points(loaded.goalies, sc, "goalie")} :
              /\ skaters' = sk.input
              /\ goalies' = go.input
              /\ skaters_with_points' = sk.result
              /\ goalies_with_points' = go.result
              /\ \E order \in RankingOrders(sk.result, go.result) :
                    \E ranked \in {create_combined_rankings(sk.result, go.result, order)} :
                        ShowResults(ranked)
        /\ UNCHANGED << skaters_csv, goalies_csv, call >>

Next == StoppedRun \/ PreviewRun \/ CalculationRun

Spec == Init /\ [][Next]_vars

(***************************************************************************)
(* calculate_fantasy_points called on its own: any cleaned table, with     *)
(* columns of both categories or with stat columns absent, any weights     *)
(* mapping, with keys absent, and either player_type.                      *)
(***************************************************************************)
WideCols == SkaterFileCols \cup GoalieFileCols

WideRow(a, b) ==
    [n \in WideCols \ {"Player"} |->
        IF n \in DOMAIN SkaterRows[a] THEN SkaterRows[a][n] ELSE GoalieRows[b][n]]

WideRows == << WideRow(1, 1), WideRow(2, 2), WideRow(3, 2), WideRow(4, 1) >>

ScoreTables ==
    {Clean(RawFile(WideRows, picks, "P", cols, {}),
           numeric_cols_skaters \cup numeric_cols_goalies)
       : picks \in SeqsUpTo(DOMAIN WideRows, MaxSkaters),
         cols \in {WideCols, WideCols \ {"G", "SV"}}}

ScoreWeights ==
    {[k \in keys |-> w[k]]
       : w \in ScoringInputs,
         keys \in {ScoringKeys, ScoringKeys \ {"A", "SO"}, {"G", "SV"}, {}}}

ScoreInit ==
    /\ skaters_csv = Unreadable
    /\ goalies_csv = Unreadable
    /\ NoRun
    /\ \E df \in ScoreTables, w \in ScoreWeights, t \in {"skater", "goalie"} :
           call = [df |-> df, scoring |-> w, player_type |-> t,
                   returned |-> FALSE, df_after |-> None, result |-> None]

Call ==
    /\ ~call.returned
    /\ \E r \in {calculate_fantasy_points(call.df, call.scoring, call.player_type)} :
           call' = [call EXCEPT !.returned = TRUE,
                                !.df_after = r.input,
                                !.result = r.result]
    /\ UNCHANGED << skaters_csv, goalies_csv, cache, session_state,
                    run_calculation, scoring, skaters, goalies, skaters_with_points,
                    goalies_with_points, combined_rankings, outcome, warnings,
                    pos_stats, team_stats >>

ScoreNext == Call

ScoreSpec == ScoreInit /\ [][ScoreNext]_vars

(***************************************************************************)
(* main on the files of a whole league: as many teams as the analysis tab  *)
(* keeps, and more.                                                        *)
(***************************************************************************)
MaxLeagueSkaters == 10

TeamName(j) == Text("T" \o ToString(j))

LeaguePositions == << "C", "D", "LW", "RW" >>

\* n well-formed skaters on `teams` teams in turn, the i-th with i - 1
\* goals: the first one scores no points.
LeagueSkaterRows(n, teams) ==
    [i \in 1..n |->
        SkaterRow(TeamName(((i - 1) % teams) + 1),
                  Text(LeaguePositions[((i - 1) % Len(LeaguePositions)) + 1]),
                  Num(i - 1), Num(0), Num(i - 1), Num(0), Num(0), Num(0))]

LeagueSkaterFiles ==
    {RawFile(LeagueSkaterRows(n, teams), [i \in 1..n |-> i], "S", SkaterFileCols, {})
       : n \in 1..MaxLeagueSkaters, teams \in 1..MaxLeagueSkaters}

\* One goalie: of the first skater team, of a team of their own, or with
\* the team missing, which fillna turns into the number 0.
LeagueGoalieRows ==
    << GoalieRow(TeamName(1), Num(1), Num(30), Num(0), Num(915), Num(250)),
       GoalieRow(Text("TOR"), Num(1), Num(30), Num(0), Num(915), Num(250)),
       GoalieRow(NaN, Num(1), Num(30), Num(0), Num(915), Num(250)) >>

LeagueGoalieFiles ==
    {RawFile(LeagueGoalieRows, << g >>, "T", GoalieFileCols, {}) : g \in DOMAIN LeagueGoalieRows}

LeagueInit ==
    /\ skaters_csv \in LeagueSkaterFiles \cup {Unreadable}
    /\ goalies_csv \in LeagueGoalieFiles
    /\ NoRun
    /\ call = None

LeagueSpec == LeagueInit /\ [][Next]_vars

(***************************************************************************)
(* Properties                                                              *)
(***************************************************************************)
\* The last run got a ranking back from create_combined_rankings.
HasRanking == "rows" \in DOMAIN combined_rankings

\* The concatenation that the sort of the last run started from.
PreSort == Combined(skaters_with_points, goalies_with_points)

\* The pre-sort position of a ranked row (player names are distinct).
PreSortIndex(row) ==
    CHOOSE i \in DOMAIN PreSort.rows : PreSort.rows[i]["Player"] = row["Player"]

\* C1: the ranks of the N rows of a ranking are exactly 1..N, each on one
\* row, and the row at sort position i has Rank i.
C1_RanksDense ==
    HasRanking =>
        /\ DOMAIN combined_rankings.rows =
               1..(NRows(skaters_with_points) + NRows(goalies_with_points))
        /\ \A i \in DOMAIN combined_rankings.rows :
               combined_rankings.rows[i]["Rank"] = Num(i)
        /\ \A r \in 1..NRows(combined_rankings) :
               Cardinality({i \in DOMAIN combined_rankings.rows :
                               combined_rankings.rows[i]["Rank"].num = r}) = 1

\* A ranking of three rows that the sort rearranged: a goalie ranks first.
C1_Witness ==
    /\ HasRanking
    /\ NRows(combined_rankings) >= 3
    /\ combined_rankings.rows[1]["Player Type"] = Text("Goalie")

\* C2: fantasy points never increase with rank: Rank(a) < Rank(b) implies
\* FantasyPoints(a) >= FantasyPoints(b).
C2_PointsNonIncreasingInRank ==
    HasRanking =>
        \A a, b \in DOMAIN combined_rankings.rows :
            combined_rankings.rows[a]["Rank"].num < combined_rankings.rows[b]["Rank"].num
                => combined_rankings.rows[a]["Fantasy Points"].num
                       >= combined_rankings.rows[b]["Fantasy Points"].num

\* A ranking of three rows whose concatenation was not in order already.
C2_Witness ==
    /\ HasRanking
    /\ NRows(combined_rankings) >= 3
    /\ PreSort.rows[1]["Fantasy Points"].num < PreSort.rows[2]["Fantasy Points"].num
    /\ combined_rankings.rows[1]["Fantasy Points"].num
           > combined_rankings.rows[3]["Fantasy Points"].num

\* C3: the sort is stable: two players with equal Fantasy Points are ranked
\* in the order of the pre-sort concatenation.
C3_TiesKeepConcatenationOrder ==
    HasRanking =>
        \A a, b \in DOMAIN combined_rankings.rows :
            /\ a < b
            /\ combined_rankings.rows[a]["Fantasy Points"]
                   = combined_rankings.rows[b]["Fantasy Points"]
            => PreSortIndex(combined_rankings.rows[a]) < PreSortIndex(combined_rankings.rows[b])

\* The stats that count for a category, as the claim lists them.
ApplicableStats(player_type) ==
    IF player_type = "skater"
    THEN {"G", "A", "PIM", "PPG", "PPP", "SOG", "HIT", "BLK"}
    ELSE {"W", "SV", "SO"}

\* The sum of row[stat] x weights[stat] over a set of stats, in hundredths.
RECURSIVE WeightedSum(_, _, _)
WeightedSum(row, weights, stats) ==
    IF stats = {} THEN 0
    ELSE (row[CHOOSE x \in stats : TRUE].num * weights[CHOOSE x \in stats : TRUE])
         + WeightedSum(row, weights, stats \ {CHOOSE x \in stats : TRUE})

\* The unrounded score of a row of a table with columns cols.
ExactPoints(row, cols, weights, player_type) ==
    WeightedSum(row, weights, ApplicableStats(player_type) \cap cols \cap DOMAIN weights)

\* Whether t tenths is x hundredths rounded to one decimal.
IsRounded(t, x) == 10 * t - x <= 5 /\ x - 10 * t <= 5

\* Whether the Fantasy Points of every row of `scored` are the rounded sum
\* over the applicable stats of the row of df at the same position.
ScoresApplicableStats(df, weights, player_type, scored) ==
    /\ DOMAIN scored.rows = DOMAIN df.rows
    /\ \A i \in DOMAIN df.rows :
          /\ scored.rows[i]["Fantasy Points"].kind = "num"
          /\ IsRounded(scored.rows[i]["Fantasy Points"].num,
                       ExactPoints(df.rows[i], df.cols, weights, player_type))
          /\ (\A n \in ApplicableStats(player_type) \cap df.cols : df.rows[i][n].num = 0)
                 => scored.rows[i]["Fantasy Points"] = Num(0)

\* C4: Fantasy Points are the sum of stat x weight over the stats of the
\* record's category only, rounded to one decimal; a stat whose weight or
\* whose column is missing adds 0 and nothing raises; all-zero stats score 0.
C4_PointsAreApplicableSum ==
    call.returned =>
        ScoresApplicableStats(call.df, call.scoring, call.player_type, call.result)

\* A skater call on a table that has a wins column with a win in it and no
\* G column, with weights that hold W and G and lack A.
C4_Witness ==
    /\ call.returned
    /\ call.player_type = "skater"
    /\ "W" \in call.df.cols /\ "W" \in DOMAIN call.scoring
    /\ "G" \notin call.df.cols /\ "G" \in DOMAIN call.scoring
    /\ "A" \in call.df.cols /\ "A" \notin DOMAIN call.scoring
    /\ \E i \in DOMAIN call.df.rows :
          /\ call.df.rows[i]["W"].num > 0
          /\ call.df.rows[i]["A"].num > 0
          /\ call.result.rows[i]["Fantasy Points"].num > 0

\* The rows of the ranking that carry the player of the given row.
RankedRowsOf(row) ==
    {k \in DOMAIN combined_rankings.rows :
        combined_rankings.rows[k]["Player"] = row["Player"]}

\* C5: the ranking has one row per input skater and per input goalie;
\* goalie rows have Pos 'G', type 'Goalie' and 0 in the skater-only fields;
\* skater rows have type 'Skater' and 0 in the goalie-only fields; without
\* skaters the ranking is the goalie rows alone.
C5_OneRowPerPlayer ==
    HasRanking =>
        /\ NRows(combined_rankings)
               = NRows(skaters_with_points) + NRows(goalies_with_points)
        /\ \A i \in DOMAIN skaters_with_points.rows :
              /\ Cardinality(RankedRowsOf(skaters_with_points.rows[i])) = 1
              /\ \A k \in RankedRowsOf(skaters_with_points.rows[i]) :
                    /\ combined_rankings.rows[k]["Player Type"] = Text("Skater")
                    /\ \A c \in {"W", "SV", "SO", "SV%", "GAA"} :
                          combined_rankings.rows[k][c] = Num(0)
        /\ \A j \in DOMAIN goalies_with_points.rows :
              /\ Cardinality(RankedRowsOf(goalies_with_points.rows[j])) = 1
              /\ \A k \in RankedRowsOf(goalies_with_points.rows[j]) :
                    /\ combined_rankings.rows[k]["Player Type"] = Text("Goalie")
                    /\ combined_rankings.rows[k]["Pos"] = Text("G")
                    /\ \A c \in {"G", "A", "PTS", "PIM", "PPG", "PPP", "SOG", "HIT", "BLK"} :
                          combined_rankings.rows[k][c] = Num(0)
        /\ NRows(skaters_with_points) = 0 =>
              \A k \in DOMAIN combined_rankings.rows :
                  combined_rankings.rows[k]["Player Type"] = Text("Goalie")

\* No skaters and at least one goalie: the ranking is the goalie rows.
C5_Witness ==
    /\ HasRanking
    /\ NRows(skaters_with_points) = 0
    /\ NRows(goalies_with_points) >= 1
    /\ NRows(combined_rankings) = NRows(goalies_with_points)

\* C6: a position filter of the ranking that matches no player never ends
\* the run in an error: every 'top' summary checks for emptiness first.
C6_EmptyFilterNeverFails ==
    /\ HasRanking
    /\ NRows(combined_rankings) > 0
    /\ \E pos \in {"G", "D", "LW", "RW"} :
           NRows(Filter(combined_rankings, "Pos", Text(pos))) = 0
    => outcome # "IndexError"

\* C7: loading is all-or-nothing: load_data never yields one table with one
\* None; when either file fails, both are None and main stops before any
\* scoring, ranking or display; scoring runs only with both tables loaded.
C7_LoadAllOrNothing ==
    /\ cache # CacheEmpty => (cache.skaters = None <=> cache.goalies = None)
    /\ (skaters_csv = Unreadable \/ goalies_csv = Unreadable) /\ outcome # "none"
           => /\ cache = [skaters |-> None, goalies |-> None]
              /\ outcome = "stopped"
              /\ skaters_with_points = None
              /\ goalies_with_points = None
              /\ combined_rankings = None
    /\ skaters_with_points # None \/ goalies_with_points # None
           => /\ "rows" \in DOMAIN skaters
              /\ "rows" \in DOMAIN goalies

\* The skater file reads, the goalie file does not, and a run has stopped.
C7_Witness ==
    /\ skaters_csv # Unreadable
    /\ NRows(skaters_csv) > 0
    /\ goalies_csv = Unreadable
    /\ outcome = "stopped"

\* C8: a script run in which the run button was not pressed does not
\* execute calculate_fantasy_points / create_combined_rankings.
C8_CalculatesOnlyWhenPressed ==
    outcome # "none" /\ ~run_calculation
        => skaters_with_points = None /\ combined_rankings = None

\* Whether `scored` has the rows of df in the same order with the same
\* values in the columns of df.
SameRowsInOrder(df, scored) ==
    /\ DOMAIN scored.rows = DOMAIN df.rows
    /\ \A i \in DOMAIN df.rows : \A n \in df.cols : scored.rows[i][n] = df.rows[i][n]

\* C9: scoring leaves its input alone and keeps its order: after any runs
\* the cached tables are as loaded, without a Fantasy Points column, and
\* the scores of a run follow from the snapshot and that run's weights.
C9_SnapshotUntouched ==
    /\ cache # CacheEmpty => cache = load_data(skaters_csv, goalies_csv)
    /\ skaters_with_points # None =>
          /\ skaters = cache.skaters
          /\ goalies = cache.goalies
          /\ "Fantasy Points" \notin skaters.cols \cup goalies.cols
          /\ SameRowsInOrder(skaters, skaters_with_points)
          /\ SameRowsInOrder(goalies, goalies_with_points)
          /\ ScoresApplicableStats(cache.skaters, scoring, "skater", skaters_with_points)
          /\ ScoresApplicableStats(cache.goalies, scoring, "goalie", goalies_with_points)

\* A later run, not caused by the button, that scored both tables with
\* edited weights.
C9_Witness ==
    /\ skaters_with_points # None
    /\ ~run_calculation
    /\ scoring = EditedScoring
    /\ NRows(skaters) >= 2
    /\ NRows(goalies) >= 1

\* Whether t is the cleaned form of the raw file: the same rows in the same
\* order, no missing value left, 0 for what was missing, numbers in the
\* declared numeric columns with 0 for what did not parse, the rest as read.
CleanedLeniently(raw, t, numeric_cols) ==
    /\ "rows" \in DOMAIN t
    /\ DOMAIN t.rows = DOMAIN raw.rows
    /\ \A i \in DOMAIN raw.rows : \A h \in raw.cols :
          /\ t.rows[i][h.name].kind # "nan"
          /\ raw.rows[i][h].kind = "nan" => t.rows[i][h.name] = Num(0)
          /\ h.name \in numeric_cols =>
                /\ t.rows[i][h.name].kind = "num"
                /\ raw.rows[i][h].kind = "num" => t.rows[i][h.name] = raw.rows[i][h]
                /\ raw.rows[i][h].kind = "text" /\ raw.rows[i][h].text \notin DOMAIN Literal
                       => t.rows[i][h.name] = Num(0)
          /\ h.name \notin numeric_cols /\ raw.rows[i][h].kind # "nan"
                => t.rows[i][h.name] = raw.rows[i][h]

\* C10: in both tables a missing or unparseable value of a declared numeric
\* column becomes 0 without failing the load, every other missing value
\* becomes 0, and the rows stay the same in number and order.
C10_LenientCoercion ==
    cache # CacheEmpty /\ skaters_csv # Unreadable /\ goalies_csv # Unreadable
        => /\ CleanedLeniently(skaters_csv, cache.skaters, numeric_cols_skaters)
           /\ CleanedLeniently(goalies_csv, cache.goalies, numeric_cols_goalies)

\* Both files loaded, with an unparseable goal count, a missing assist
\* count and a missing team under a quoted header among the skaters.
C10_Witness ==
    /\ cache # CacheEmpty
    /\ goalies_csv # Unreadable
    /\ skaters_csv # Unreadable
    /\ \E i \in DOMAIN skaters_csv.rows : \E g, a, t \in skaters_csv.cols :
          /\ g.name = "G" /\ skaters_csv.rows[i][g] = Text("--")
          /\ a.name = "A" /\ skaters_csv.rows[i][a] = NaN
          /\ t.name = "Team" /\ t.quoted /\ skaters_csv.rows[i][t] = NaN
          /\ cache.skaters.rows[i]["G"] = Num(0)
          /\ cache.skaters.rows[i]["Team"] = Num(0)
    /\ NRows(goalies_csv) >= 1


\* Whether the run reached the analysis tab and built its two frames.
HasAnalysis == outcome = "displayed"

\* The 'Player Count' values of the first k rows of a position frame, added up.
RECURSIVE SumOfCounts(_, _)
SumOfCounts(stats, k) ==
    IF k = 0 THEN 0 ELSE stats.rows[k]["Player Count"].num + SumOfCounts(stats, k - 1)

\* C11: in the position aggregate of lines 449-451 the per-position player
\* counts add up to the number of ranked players, and the largest of the
\* per-position 'Max Points' is the Fantasy Points of the player of rank 1.
C11_PositionTotalsMatchRanking ==
    HasAnalysis =>
        /\ SumOfCounts(pos_stats, NRows(pos_stats)) = NRows(combined_rankings)
        /\ \A i \in DOMAIN combined_rankings.rows :
               combined_rankings.rows[i]["Rank"] = Num(1) =>
                   /\ \E g \in DOMAIN pos_stats.rows :
                          pos_stats.rows[g]["Max Points"] =
                              combined_rankings.rows[i]["Fantasy Points"]
                   /\ \A g \in DOMAIN pos_stats.rows :
                          pos_stats.rows[g]["Max Points"].num <=
                              combined_rankings.rows[i]["Fantasy Points"].num

\* A league whose positions hold one, two and three players, one of them
\* without points, and whose best player is not in the first group.
C11_Witness ==
    /\ HasAnalysis
    /\ {pos_stats.rows[g]["Player Count"].num : g \in DOMAIN pos_stats.rows} = {1, 2, 3}
    /\ \E i \in DOMAIN combined_rankings.rows :
           combined_rankings.rows[i]["Fantasy Points"] = Num(0)
    /\ \E i \in DOMAIN combined_rankings.rows :
           /\ combined_rankings.rows[i]["Rank"] = Num(1)
           /\ combined_rankings.rows[i]["Pos"] # pos_stats.rows[1]["Position"]


\* The distinct values of column col in the ranking.
Observed(col) == {combined_rankings.rows[i][col] : i \in DOMAIN combined_rankings.rows}

\* The values the frame stats lists in column col.
Listed(stats, col) == {stats.rows[g][col] : g \in DOMAIN stats.rows}

\* Whether no value of column col is on two rows of the frame stats.
ListedOnce(stats, col) ==
    \A g, h \in DOMAIN stats.rows : stats.rows[g][col] = stats.rows[h][col] => g = h

\* The Fantasy Points of the ranked players of a team, added up.
TeamTotal(team) == SumPoints(combined_rankings, Members(combined_rankings, "Team", team))

\* C12 as stated: both aggregates of the analysis tab list every position
\* and every team that has a ranked player, however many teams there are.
C12_EveryGroupListed ==
    HasAnalysis =>
        /\ Observed("Pos") \subseteq Listed(pos_stats, "Position")
        /\ Observed("Team") \subseteq Listed(team_stats, "Team")

\* C12 as amended: the position aggregate lists every position that has a
\* ranked player, each once.  The team aggregate lists teams that have a
\* ranked player, each once: all of them when there are at most TopTeams,
\* and otherwise TopTeams of them, none with a lower total than a team
\* left out.
C12_EveryGroupListedUpToTopTeams ==
    HasAnalysis =>
        /\ Listed(pos_stats, "Position") = Observed("Pos")
        /\ ListedOnce(pos_stats, "Position")
        /\ Listed(team_stats, "Team") \subseteq Observed("Team")
        /\ ListedOnce(team_stats, "Team")
        /\ Cardinality(Observed("Team")) <= TopTeams =>
               Listed(team_stats, "Team") = Observed("Team")
        /\ Cardinality(Observed("Team")) > TopTeams => NRows(team_stats) = TopTeams
        /\ \A out \in Observed("Team") \ Listed(team_stats, "Team") :
               \A g \in DOMAIN team_stats.rows :
                   /\ team_stats.rows[g]["Total Fantasy Points"].num >= TeamTotal(out)
                   /\ team_stats.rows[g]["Total Fantasy Points"].num =
                          TeamTotal(team_stats.rows[g]["Team"])

\* A league of more than TopTeams teams, one of them the team 0 of a
\* player whose team is missing, with a position of a single player.
C12_Witness ==
    /\ HasAnalysis
    /\ Cardinality(Observed("Team")) > TopTeams
    /\ NRows(team_stats) = TopTeams
    /\ Num(0) \in Listed(team_stats, "Team")
    /\ \E g \in DOMAIN pos_stats.rows : pos_stats.rows[g]["Player Count"] = Num(1)

====
